---- MODULE Spec2Model ----
(***************************************************************************)
(* Product write path of the gamma-ortho catalog backend:                  *)
(*   routes/adminProductRoutes.js  (create / update / delete handlers)     *)
(*   models/Product.js             (schema validators)                     *)
(*   services/imageUploadService.js (object storage gateway)               *)
(*                                                                         *)
(* Strings are sequences of one-character strings, so that trim,           *)
(* parseFloat, toLowerCase and the slug replacement are computed.          *)
(* Numbers are integers counting hundredths (0.12 is 12, 10 is 1000).      *)
(* Each handler is a process whose steps are the synchronous segments      *)
(* between its awaits.                                                     *)
(***************************************************************************)
EXTENDS Integers, Sequences, FiniteSets, TLC

\* ------------------------------------------------------------------------
\* Bounds of the model
\* ------------------------------------------------------------------------
MaxProducts == 1
MaxDims == 2
MaxAdditional == 2
MaxClock == 1

\* ------------------------------------------------------------------------
\* Strings
\* ------------------------------------------------------------------------
\* JavaScript undefined (a field absent from req.body)
Undefined == <<"undefined">>

Space == " "

IsBlankChar(c) == c = Space

RECURSIVE TrimLeft(_)
TrimLeft(s) ==
    IF s = <<>> THEN <<>>
    ELSE IF IsBlankChar(Head(s)) THEN TrimLeft(Tail(s)) ELSE s

RECURSIVE TrimRight(_)
TrimRight(s) ==
    IF s = <<>> THEN <<>>
    ELSE IF IsBlankChar(s[Len(s)]) THEN TrimRight(SubSeq(s, 1, Len(s) - 1)) ELSE s

\* String.prototype.trim
Trim(s) == TrimRight(TrimLeft(s))

LowerOf(c) ==
    CASE c = "W" -> "w"
      [] c = "P" -> "p"
      [] c = "O" -> "o"
      [] c = "A" -> "a"
      [] c = "Q" -> "q"
      [] OTHER -> c

\* String.prototype.toLowerCase
ToLower(s) == [i \in 1..Len(s) |-> LowerOf(s[i])]

\* s.replace(/\s+/g, r): every maximal run of whitespace becomes r
RECURSIVE ReplaceSpaceRuns(_, _)
ReplaceSpaceRuns(s, r) ==
    IF s = <<>> THEN <<>>
    ELSE IF IsBlankChar(Head(s))
         THEN <<r>> \o ReplaceSpaceRuns(TrimLeft(s), r)
         ELSE <<Head(s)>> \o ReplaceSpaceRuns(Tail(s), r)

\* JavaScript truthiness of a body field that is a string or undefined
Truthy(s) == s # Undefined /\ s # <<>>

\* ------------------------------------------------------------------------
\* Numbers
\* ------------------------------------------------------------------------
\* n whole units, in hundredths
Units(n) == 100 * n

NaN == [nan |-> TRUE, val |-> 0]

Num(v) == [nan |-> FALSE, val |-> v]

Digits == {"0", "1", "2", "3", "4", "5", "6", "7", "8", "9"}

DigitVal(c) ==
    CASE c = "0" -> 0 [] c = "1" -> 1 [] c = "2" -> 2 [] c = "3" -> 3
      [] c = "4" -> 4 [] c = "5" -> 5 [] c = "6" -> 6 [] c = "7" -> 7
      [] c = "8" -> 8 [] c = "9" -> 9

\* the longest prefix of s made of digits
RECURSIVE DigitPrefix(_)
DigitPrefix(s) ==
    IF s = <<>> \/ Head(s) \notin Digits THEN <<>>
    ELSE <<Head(s)>> \o DigitPrefix(Tail(s))

RECURSIVE DigitsValue(_, _)
DigitsValue(ds, acc) ==
    IF ds = <<>> THEN acc
    ELSE DigitsValue(Tail(ds), 10 * acc + DigitVal(Head(ds)))

\* the fraction digits after a decimal point, as hundredths (truncated)
FractionValue(ds) ==
    (IF Len(ds) >= 1 THEN 10 * DigitVal(ds[1]) ELSE 0)
    + (IF Len(ds) >= 2 THEN DigitVal(ds[2]) ELSE 0)

\* the unsigned decimal literal at the start of s
ParseUnsigned(s) ==
    LET ip == DigitPrefix(s)
        rest == SubSeq(s, Len(ip) + 1, Len(s))
        hasDot == rest # <<>> /\ Head(rest) = "."
        fp == IF hasDot THEN DigitPrefix(Tail(rest)) ELSE <<>>
    IN  IF ip = <<>> /\ fp = <<>> THEN NaN
        ELSE Num(Units(DigitsValue(ip, 0)) + FractionValue(fp))

\* global parseFloat: skip leading whitespace, optional sign, decimal literal;
\* trailing characters are ignored; NaN when no literal starts the string
ParseFloat(x) ==
    IF x = Undefined THEN NaN
    ELSE LET s == TrimLeft(x)
         IN  IF s = <<>> THEN NaN
             ELSE IF Head(s) = "-"
                  THEN LET u == ParseUnsigned(Tail(s))
                       IN  IF u.nan THEN NaN ELSE Num(0 - u.val)
                  ELSE IF Head(s) = "+" THEN ParseUnsigned(Tail(s))
                  ELSE ParseUnsigned(s)

\* ------------------------------------------------------------------------
\* Dimension parsing (the handlers' inline loops)
\* ------------------------------------------------------------------------
\* const isDimNameValid = dimName && dimName.trim() !== ""
IsDimNameValid(dimName) == Truthy(dimName) /\ Trim(dimName) # <<>>

\* const isDimPriceValid = dimPrice !== undefined
\*     && String(dimPrice).trim() !== "" && !isNaN(parseFloat(dimPrice))
IsDimPriceValid(dimPrice) ==
    /\ dimPrice # Undefined
    /\ Trim(dimPrice) # <<>>
    /\ ~ParseFloat(dimPrice).nan

ParsedEntry(dim) ==
    [dimensionName |-> Trim(dim.dimensionName),
     basePrice |-> ParseFloat(dim.basePrice).val]

\* a parser that drops an entry equal to one it already kept
RECURSIVE ParseDimensionsPostDedup(_, _)
ParseDimensionsPostDedup(raw, parsedDimensions) ==
    IF raw = <<>> THEN parsedDimensions
    ELSE LET dim == Head(raw)
         IN  IF IsDimNameValid(dim.dimensionName) /\ IsDimPriceValid(dim.basePrice)
                /\ \A i \in 1..Len(parsedDimensions) : parsedDimensions[i] # ParsedEntry(dim)
             THEN ParseDimensionsPostDedup(Tail(raw), Append(parsedDimensions, ParsedEntry(dim)))
             ELSE ParseDimensionsPostDedup(Tail(raw), parsedDimensions)

\* POST: req.body.dimensions.forEach(... parsedDimensions.push(...) ...)
RECURSIVE ParseDimensionsPost(_, _)
ParseDimensionsPost(raw, parsedDimensions) ==
    IF raw = <<>> THEN parsedDimensions
    ELSE LET dim == Head(raw)
         IN  IF IsDimNameValid(dim.dimensionName) /\ IsDimPriceValid(dim.basePrice)
             THEN ParseDimensionsPost(Tail(raw), Append(parsedDimensions, ParsedEntry(dim)))
             ELSE ParseDimensionsPost(Tail(raw), parsedDimensions)

NullEntry == [dimensionName |-> Undefined, basePrice |-> 0]

\* PUT: req.body.dimensions.map(...).filter(dim => dim !== null)
ParseDimensionsPut(raw) ==
    LET mapped == [i \in 1..Len(raw) |->
                     IF IsDimNameValid(raw[i].dimensionName)
                        /\ IsDimPriceValid(raw[i].basePrice)
                     THEN ParsedEntry(raw[i]) ELSE NullEntry]
    IN  SelectSeq(mapped, LAMBDA dim : dim # NullEntry)

\* ------------------------------------------------------------------------
\* Product schema (models/Product.js)
\* ------------------------------------------------------------------------
\* enum.values of productType
ProductTypeEnum ==
    { <<"w","i","r","e","-","p","i","n">>,
      <<"a","o","-","f","i","x","a","t","o","r">>,
      <<"j","e","s","s","-","f","i","x","a","t","o","r">>,
      <<"r","i","n","g","-","f","i","x","a","t","o","r">>,
      <<"r","a","i","l","-","f","i","x","a","t","o","r">>,
      <<"o","t","h","e","r">> }

\* gstRate default 0.12
GstDefault == 12

\* gstRate max 1
GstMax == Units(1)

\* the min validator of basePrice left out of the schema
DimensionValidNoMin(d) == Trim(d.dimensionName) # <<>>

\* dimensionSchema: dimensionName required (after trim), basePrice min 0
DimensionValid(d) ==
    /\ Trim(d.dimensionName) # <<>>
    /\ d.basePrice >= 0

\* the array validator left out of the schema
DimensionsValidatorMissing(v) == TRUE

\* dimensions.validate: v => Array.isArray(v) && v.length > 0
DimensionsValidator(v) == Len(v) > 0

\* the setters of the schema paths (trim, lowercase)
CastPath(path, v) ==
    CASE path = "name" -> Trim(v)
      [] path = "description" -> IF v = Undefined THEN v ELSE Trim(v)
      [] path = "productType" -> ToLower(Trim(v))
      [] path = "dimensions" ->
            [i \in 1..Len(v) |-> [v[i] EXCEPT !.dimensionName = Trim(@)]]
      [] path = "gstRate" -> v.val
      [] OTHER -> v

\* a number path given NaN cannot be cast
CastFails(path, v) == path = "gstRate" /\ v.nan

\* the validators of one schema path, on the cast value
PathValid(path, v) ==
    CASE path = "name" -> v # <<>>
      [] path = "description" -> v # Undefined /\ v # <<>>
      [] path = "productType" -> v # <<>> /\ v \in ProductTypeEnum
      [] path = "dimensions" ->
            DimensionsValidator(v) /\ \A i \in 1..Len(v) : DimensionValid(v[i])
      [] path = "gstRate" -> v >= 0 /\ v <= GstMax
      [] OTHER -> TRUE

\* a document or $set object after casting
CastDoc(data) == [p \in DOMAIN data |-> CastPath(p, data[p])]

\* the outcome of casting and validating the paths of data
SchemaCheck(data) ==
    IF \E p \in DOMAIN data : CastFails(p, data[p]) THEN "CastError"
    ELSE IF \E p \in DOMAIN data : ~PathValid(p, CastPath(p, data[p]))
         THEN "ValidationError"
         ELSE "ok"

\* ------------------------------------------------------------------------
\* Object storage gateway (services/imageUploadService.js)
\* ------------------------------------------------------------------------
Null == [bucket |-> "null", folder |-> "", base |-> <<>>, t |-> 0, ext |-> ""]

BaseFolder == "gamma_ortho_products/base_images/"

AdditionalFolder == "gamma_ortho_products/additional_images/"

\* uniqueFilename and publicUrl of uploadFileToGCS, at time t
UploadUrl(file, destinationFolderPath, t) ==
    [bucket |-> "ours",
     folder |-> destinationFolderPath,
     base |-> ReplaceSpaceRuns(file.base, "_"),
     t |-> t,
     ext |-> file.ext]

\* fileUrl.startsWith(prefix) and a non-empty object name
IsBucketUrl(url) == url.bucket = "ours"

\* deleteFileFromGCS reaches bucket.file(objectName).delete()
DeleteCallsRemote(init, url) == init /\ url # Null /\ IsBucketUrl(url)

\* deleteFileFromGCS: TRUE when the promise resolves. remoteOk is the outcome
\* of the remote call other than not-found (a 404 resolves).
DeleteResolves(init, url, remoteOk) ==
    /\ init
    /\ DeleteCallsRemote(init, url) => remoteOk

\* the object store after deleteFileFromGCS
DeleteStore(objs, init, url, remoteOk) ==
    IF DeleteCallsRemote(init, url) /\ remoteOk THEN objs \ {url} ELSE objs

\* uploadFileToGCS: TRUE when the promise resolves with the public URL
UploadResolves(init, remoteOk) == init /\ remoteOk

\* the object store after the write stream of uploadFileToGCS ends
UploadStore(objs, init, url, remoteOk) ==
    IF UploadResolves(init, remoteOk) THEN objs \cup {url} ELSE objs

\* bucket.file(objectName).delete(): the remote answers not-found (code 404)
\* for an object that is not stored, unless the call fails otherwise
RemoteDelete(objs, url, remoteOk) ==
    IF ~remoteOk THEN "error"
    ELSE IF url \in objs THEN "deleted" ELSE "notFound"

\* a not-found answer of the remote rejected like any other error
DeleteOutcomeNotFoundRejects(objs, init, url, remoteOk) ==
    IF ~init THEN "rejected"
    ELSE IF url = Null THEN "resolved"
    ELSE IF ~IsBucketUrl(url) THEN "resolved"
    ELSE IF RemoteDelete(objs, url, remoteOk) = "deleted" THEN "resolved"
    ELSE "rejected"

\* deleteFileFromGCS, branch by branch: not initialized, empty URL, URL outside
\* the bucket, remote delete, not-found, any other error
DeleteOutcome(objs, init, url, remoteOk) ==
    IF ~init THEN "rejected"
    ELSE IF url = Null THEN "resolved"
    ELSE IF ~IsBucketUrl(url) THEN "resolved"
    ELSE IF RemoteDelete(objs, url, remoteOk) = "deleted" THEN "resolved"
    ELSE IF RemoteDelete(objs, url, remoteOk) = "notFound" THEN "resolved"
    ELSE "rejected"

\* ------------------------------------------------------------------------
\* State
\* ------------------------------------------------------------------------
VARIABLES
    db,        \* the Product collection: _id -> document
    nextId,    \* the _id the next inserted document gets
    store,     \* the objects of the bucket, by public URL
    gcsInit,   \* isGCSInitialized
    clock,     \* Date.now()
    req        \* per handler invocation: its position and locals

vars == <<db, nextId, store, gcsInit, clock, req>>

Slots == {1, 2}

Ids == 1..MaxProducts

EmptyData == [p \in {} |-> 0]

\* obj[k] = v on a plain object
SetField(obj, k, v) == [p \in DOMAIN obj \cup {k} |-> IF p = k THEN v ELSE obj[p]]

NoInput == [id |-> 0]

IdleReq ==
    [op |-> "none", pc |-> "idle", in |-> NoInput, data |-> EmptyData,
     existing |-> <<>>, kind |-> "none", ops |-> <<>>, pending |-> {},
     uploadFailed |-> FALSE, failedDeletes |-> {}, status |-> 0, calls |-> <<>>, before |-> EmptyData]

\* a gateway call the handler made: kind "put" or "del"
Call(kind, url) == [kind |-> kind, url |-> url]

\* res.status(code).json(...): the handler returns
Respond(r, code) == [r EXCEPT !.pc = "done", !.status = code]

\* start the gateway calls of one fan-out and suspend at pc
IssueOps(r, kind, urls, pc) ==
    [r EXCEPT !.kind = kind, !.ops = urls, !.pending = 1..Len(urls), !.pc = pc,
              !.failedDeletes = {},
              !.calls = @ \o [i \in 1..Len(urls) |-> Call(kind, urls[i])]]

HasFiles(in) == in.baseImage # <<>> \/ in.additionalImages # <<>>

\* lines 15-23: multer's fileFilter accepts a file whose mimetype starts
\* with 'image/'
FileFilter(file) == file.mimetype[1] = "image"

\* lines 12-24 and upload.fields: req.files holds the accepted files, and
\* req.fileValidationError is set when a file was refused
UploadFields(sent) ==
    [sent EXCEPT
       !.baseImage = SelectSeq(@, FileFilter),
       !.additionalImages = SelectSeq(@, FileFilter),
       !.fileValidationError =
           \/ \E i \in DOMAIN sent.baseImage : ~FileFilter(sent.baseImage[i])
           \/ \E j \in DOMAIN sent.additionalImages :
                  ~FileFilter(sent.additionalImages[j])]

Init ==
    /\ db = EmptyData
    /\ nextId = 1
    /\ store = {}
    /\ gcsInit \in BOOLEAN
    /\ clock = 0
    /\ req = [s \in Slots |-> IdleReq]

\* a handler invocation can start in slot s
Free(s) == req[s].pc = "idle"

NewReq(op, in) ==
    [IdleReq EXCEPT !.op = op, !.in = in, !.before = db]

\* ------------------------------------------------------------------------
\* POST /api/admin/products
\* ------------------------------------------------------------------------
\* req.body.productTypeSelect.trim().toLowerCase(), or the slug of newProductType
FinalProductType(in) ==
    LET sel == ToLower(Trim(in.productTypeSelect))
    IN  IF sel = <<"o","t","h","e","r">>
        THEN ReplaceSpaceRuns(ToLower(Trim(in.newProductType)), "-")
        ELSE sel

\* parseFloat(req.body.gstRate) || 0.12
PostGstRate(in) ==
    LET g == ParseFloat(in.gstRate)
    IN  IF g.nan \/ g.val = 0 THEN Num(GstDefault) ELSE g

\* req.body.isActive === 'true' || req.body.isActive === true
PostIsActive(in) == in.isActive = <<"t","r","u","e">>

\* the additional images uploaded one after the other: only the first upload
\* is started before the handler suspends
PostAdditionalOneByOne(r) ==
    IF r.in.additionalImages # <<>>
    THEN IssueOps(r, "put",
                  <<UploadUrl(r.in.additionalImages[1], AdditionalFolder, clock)>>,
                  "postAddUp")
    ELSE [r EXCEPT !.pc = "postSave"]

\* lines 109-120, then newProduct.save() is issued
PostAdditional(r) ==
    IF r.in.additionalImages # <<>>
    THEN IssueOps(r, "put",
                  [i \in 1..Len(r.in.additionalImages) |->
                     UploadUrl(r.in.additionalImages[i], AdditionalFolder, clock)],
                  "postAddUp")
    ELSE [r EXCEPT !.pc = "postSave"]

\* lines 35-107: everything up to the first await
PostStart(r) ==
    LET in == r.in
        parsedDimensions ==
            IF in.dimensions.isArray
            THEN ParseDimensionsPost(in.dimensions.items, <<>>) ELSE <<>>
        r1 == [r EXCEPT !.data =
                 [productType |-> FinalProductType(in),
                  dimensions |-> parsedDimensions,
                  baseImageURL |-> Null,
                  additionalImageURLs |-> <<>>]]
    IN  IF in.fileValidationError THEN Respond(r, 400)
        ELSE IF HasFiles(in) /\ ~gcsInit THEN Respond(r, 503)
        ELSE IF ~Truthy(in.name) \/ Trim(in.name) = <<>> THEN Respond(r, 400)
        ELSE IF ~Truthy(in.productTypeSelect) \/ Trim(in.productTypeSelect) = <<>>
             THEN Respond(r, 400)
        ELSE IF ToLower(Trim(in.productTypeSelect)) = <<"o","t","h","e","r">>
                /\ (~Truthy(in.newProductType) \/ Trim(in.newProductType) = <<>>)
             THEN Respond(r, 400)
        ELSE IF parsedDimensions = <<>> THEN Respond(r, 400)
        ELSE IF in.baseImage # <<>>
             THEN IssueOps(r1, "put",
                           <<UploadUrl(in.baseImage[1], BaseFolder, clock)>>,
                           "postBaseUp")
             ELSE PostAdditional(r1)

\* a create request with a body and files of Inputs arrives
PostReceive(s, Inputs) ==
    /\ Free(s)
    /\ nextId <= MaxProducts
    /\ \E in \in Inputs : req' = [req EXCEPT ![s] = PostStart(NewReq("post", UploadFields(in)))]
    /\ UNCHANGED <<db, nextId, store, gcsInit, clock>>

\* lines 122-131
NewProductData(r) ==
    [name |-> r.in.name,
     description |-> r.in.description,
     productType |-> r.data.productType,
     baseImageURL |-> r.data.baseImageURL,
     additionalImageURLs |-> r.data.additionalImageURLs,
     dimensions |-> r.data.dimensions,
     gstRate |-> PostGstRate(r.in),
     isActive |-> PostIsActive(r.in)]

\* await newProduct.save() settles; lines 134-143
PostSave(s) ==
    LET r == req[s]
        doc == NewProductData(r)
        check == SchemaCheck(doc)
    IN  /\ r.pc = "postSave"
        /\ IF check = "ok"
           THEN /\ db' = SetField(db, nextId, CastDoc(doc))
                /\ nextId' = nextId + 1
                /\ req' = [req EXCEPT ![s] =
                             Respond([r EXCEPT !.in.id = nextId], 201)]
           ELSE /\ req' = [req EXCEPT ![s] =
                             Respond(r, IF check = "ValidationError" THEN 400 ELSE 500)]
                /\ UNCHANGED <<db, nextId>>
        /\ UNCHANGED <<store, gcsInit, clock>>

\* ------------------------------------------------------------------------
\* PUT /api/admin/products/:id
\* ------------------------------------------------------------------------
\* line 293: nothing to update; otherwise findByIdAndUpdate is issued
PutFinal(r) ==
    IF DOMAIN r.data = {} /\ ~HasFiles(r.in) THEN Respond(r, 400)
    ELSE [r EXCEPT !.pc = "putWrite"]

OldAdditional(r) == r.existing[1].additionalImageURLs

\* lines 271-274: the uploads of the new additional images start
PutAdditionalUpload(r) ==
    IssueOps(r, "put",
             [i \in 1..Len(r.in.additionalImages) |->
                UploadUrl(r.in.additionalImages[i], AdditionalFolder, clock)],
             "putAddUp")

\* lines 262-291
PutAdditional(r) ==
    IF r.in.additionalImages # <<>>
    THEN IF OldAdditional(r) # <<>> /\ gcsInit
         THEN IssueOps(r, "del", OldAdditional(r), "putAddDel")
         ELSE PutAdditionalUpload(r)
    ELSE IF r.in.additionalImageURLs.kind = "array"
    THEN PutFinal([r EXCEPT !.data =
                     SetField(@, "additionalImageURLs",
                              SelectSeq(r.in.additionalImageURLs.urls,
                                        LAMBDA url : url # Null))])
    ELSE IF r.in.additionalImageURLs.kind = "clear"
    THEN IF OldAdditional(r) # <<>> /\ gcsInit
         THEN IssueOps(r, "del", OldAdditional(r), "putAddClrDel")
         ELSE PutFinal([r EXCEPT !.data = SetField(@, "additionalImageURLs", <<>>)])
    ELSE PutFinal(r)

OldBase(r) == r.existing[1].baseImageURL

\* line 251: the upload of the new base image starts
PutBaseUpload(r) ==
    IssueOps(r, "put", <<UploadUrl(r.in.baseImage[1], BaseFolder, clock)>>, "putBaseUp")

\* lines 245-259
PutBase(r) ==
    IF r.in.baseImage # <<>>
    THEN IF OldBase(r) # Null /\ gcsInit
         THEN IssueOps(r, "del", <<OldBase(r)>>, "putBaseDel")
         ELSE PutBaseUpload(r)
    ELSE IF r.in.baseImageURL = "clear"
    THEN IF OldBase(r) # Null /\ gcsInit
         THEN IssueOps(r, "del", <<OldBase(r)>>, "putBaseClrDel")
         ELSE PutAdditional([r EXCEPT !.data = SetField(@, "baseImageURL", Null)])
    ELSE PutAdditional(r)

\* lines 195-213: the scalar fields of updateData
PutScalars(in) ==
    LET d1 == IF in.name # Undefined
              THEN SetField(EmptyData, "name", in.name) ELSE EmptyData
        d2 == IF in.description # Undefined
              THEN SetField(d1, "description", in.description) ELSE d1
        d3 == IF Truthy(in.productTypeSelect)
              THEN SetField(d2, "productType",
                     IF ToLower(Trim(in.productTypeSelect)) = <<"o","t","h","e","r">>
                     THEN IF Truthy(in.newProductType)
                          THEN ReplaceSpaceRuns(ToLower(Trim(in.newProductType)), "-")
                          ELSE <<>>
                     ELSE ToLower(Trim(in.productTypeSelect)))
              ELSE d2
        d4 == IF in.gstRate # Undefined
              THEN SetField(d3, "gstRate", ParseFloat(in.gstRate)) ELSE d3
    IN  IF in.isActive # Undefined
        THEN SetField(d4, "isActive", ToLower(in.isActive) = <<"t","r","u","e">>)
        ELSE d4

\* every update turned away while storage is not initialized, files or not
PutStartNeedsStorage(r) ==
    LET in == r.in
        d5 == PutScalars(in)
        tempParsedDimensions == ParseDimensionsPut(in.dimensions.items)
        d6 == IF in.dimensions.isArray
                 /\ (tempParsedDimensions # <<>> \/ in.dimensions.items = <<>>)
              THEN SetField(d5, "dimensions", tempParsedDimensions) ELSE d5
    IN  IF in.fileValidationError THEN Respond(r, 400)
        ELSE IF ~gcsInit THEN Respond(r, 503)
        ELSE IF "productType" \in DOMAIN d5 /\ d5["productType"] = <<>>
             THEN Respond(r, 400)
        ELSE IF in.dimensions.isArray /\ in.dimensions.items # <<>>
                /\ tempParsedDimensions = <<>>
             THEN Respond(r, 400)
        ELSE [r EXCEPT !.data = d6, !.pc = "putFind"]

\* lines 183-239: everything up to await Product.findById
PutStart(r) ==
    LET in == r.in
        d5 == PutScalars(in)
        tempParsedDimensions == ParseDimensionsPut(in.dimensions.items)
        d6 == IF in.dimensions.isArray
                 /\ (tempParsedDimensions # <<>> \/ in.dimensions.items = <<>>)
              THEN SetField(d5, "dimensions", tempParsedDimensions) ELSE d5
    IN  IF in.fileValidationError THEN Respond(r, 400)
        ELSE IF HasFiles(in) /\ ~gcsInit THEN Respond(r, 503)
        ELSE IF "productType" \in DOMAIN d5 /\ d5["productType"] = <<>>
             THEN Respond(r, 400)
        ELSE IF in.dimensions.isArray /\ in.dimensions.items # <<>>
                /\ tempParsedDimensions = <<>>
             THEN Respond(r, 400)
        ELSE [r EXCEPT !.data = d6, !.pc = "putFind"]

\* an update request with a body and files of Inputs arrives
PutReceive(s, Inputs) ==
    /\ Free(s)
    /\ \E in \in Inputs : req' = [req EXCEPT ![s] = PutStart(NewReq("put", UploadFields(in)))]
    /\ UNCHANGED <<db, nextId, store, gcsInit, clock>>

\* the existence check left to findByIdAndUpdate: the image sections run for
\* an id that resolves to nothing
PutFindUnchecked(s) ==
    LET r == req[s]
        found == IF r.in.id \in DOMAIN db THEN db[r.in.id]
                 ELSE [baseImageURL |-> Null, additionalImageURLs |-> <<>>]
    IN  /\ r.pc = "putFind"
        /\ req' = [req EXCEPT ![s] = PutBase([r EXCEPT !.existing = <<found>>])]
        /\ UNCHANGED <<db, nextId, store, gcsInit, clock>>

\* await Product.findById settles; lines 239-243, then the base image section
PutFind(s) ==
    LET r == req[s]
    IN  /\ r.pc = "putFind"
        /\ req' = [req EXCEPT ![s] =
                     IF r.in.id \in DOMAIN db
                     THEN PutBase([r EXCEPT !.existing = <<db[r.in.id]>>])
                     ELSE Respond(r, 404)]
        /\ UNCHANGED <<db, nextId, store, gcsInit, clock>>

\* the new dimensions pushed onto the stored list instead of replacing it
ApplySetPushDimensions(doc, set) ==
    [p \in DOMAIN doc |->
       IF p \notin DOMAIN set THEN doc[p]
       ELSE IF p = "dimensions" THEN doc[p] \o set[p] ELSE set[p]]

\* the stored document replaced by updateData, absent paths at their defaults
ApplyReplace(doc, set) ==
    [p \in DOMAIN doc |->
       IF p \in DOMAIN set THEN set[p]
       ELSE CASE p = "isActive" -> TRUE
              [] p = "gstRate" -> GstDefault
              [] p = "baseImageURL" -> Null
              [] OTHER -> <<>>]

\* { $set: updateData } on a stored document
ApplySet(doc, set) == [p \in DOMAIN doc |-> IF p \in DOMAIN set THEN set[p] ELSE doc[p]]

\* the final write as an upsert: a document that is gone is stored again from
\* the fetched one
PutWriteUpsert(s) ==
    LET r == req[s]
        check == SchemaCheck(r.data)
    IN  /\ r.pc = "putWrite"
        /\ IF check # "ok"
           THEN /\ req' = [req EXCEPT ![s] =
                             Respond(r, IF check = "ValidationError" THEN 400 ELSE 500)]
                /\ db' = db
           ELSE IF r.in.id \notin DOMAIN db
           THEN /\ db' = SetField(db, r.in.id, ApplySet(r.existing[1], CastDoc(r.data)))
                /\ req' = [req EXCEPT ![s] = Respond(r, 200)]
           ELSE /\ db' = [db EXCEPT ![r.in.id] = ApplySet(@, CastDoc(r.data))]
                /\ req' = [req EXCEPT ![s] = Respond(r, 200)]
        /\ UNCHANGED <<nextId, store, gcsInit, clock>>

\* the final write guarded by a version check: it is refused when the stored
\* document is no longer the one findById returned
PutWriteVersioned(s) ==
    LET r == req[s]
        check == SchemaCheck(r.data)
    IN  /\ r.pc = "putWrite"
        /\ IF check # "ok"
           THEN /\ req' = [req EXCEPT ![s] =
                             Respond(r, IF check = "ValidationError" THEN 400 ELSE 500)]
                /\ db' = db
           ELSE IF r.in.id \notin DOMAIN db
           THEN /\ req' = [req EXCEPT ![s] = Respond(r, 404)]
                /\ db' = db
           ELSE IF <<db[r.in.id]>> # r.existing
           THEN /\ req' = [req EXCEPT ![s] = Respond(r, 409)]
                /\ db' = db
           ELSE /\ db' = [db EXCEPT ![r.in.id] = ApplySet(@, CastDoc(r.data))]
                /\ req' = [req EXCEPT ![s] = Respond(r, 200)]
        /\ UNCHANGED <<nextId, store, gcsInit, clock>>

\* await Product.findByIdAndUpdate(..., { new: true, runValidators: true })
\* settles; lines 297-315
PutWrite(s) ==
    LET r == req[s]
        check == SchemaCheck(r.data)
    IN  /\ r.pc = "putWrite"
        /\ IF check # "ok"
           THEN /\ req' = [req EXCEPT ![s] =
                             Respond(r, IF check = "ValidationError" THEN 400 ELSE 500)]
                /\ db' = db
           ELSE IF r.in.id \notin DOMAIN db
           THEN /\ req' = [req EXCEPT ![s] = Respond(r, 404)]
                /\ db' = db
           ELSE /\ db' = [db EXCEPT ![r.in.id] = ApplySet(@, CastDoc(r.data))]
                /\ req' = [req EXCEPT ![s] = Respond(r, 200)]
        /\ UNCHANGED <<nextId, store, gcsInit, clock>>

\* ------------------------------------------------------------------------
\* DELETE /api/admin/products/:id
\* ------------------------------------------------------------------------
DeleteReceive(s) ==
    /\ Free(s)
    /\ \E id \in Ids :
          req' = [req EXCEPT ![s] =
                    [NewReq("delete", [id |-> id]) EXCEPT !.pc = "delFind"]]
    /\ UNCHANGED <<db, nextId, store, gcsInit, clock>>

\* only the base image deleted
ImageDeletionsBaseOnly(product) ==
    IF product.baseImageURL # Null THEN <<product.baseImageURL>> ELSE <<>>

\* imageDeletionPromises, lines 331-346
ImageDeletions(product) ==
    (IF product.baseImageURL # Null THEN <<product.baseImageURL>> ELSE <<>>)
    \o product.additionalImageURLs

\* await Product.findById settles; lines 323-354
DeleteFind(s) ==
    LET r == req[s]
        r1 == [r EXCEPT !.existing = <<db[r.in.id]>>]
    IN  /\ r.pc = "delFind"
        /\ req' = [req EXCEPT ![s] =
                     IF r.in.id \notin DOMAIN db THEN Respond(r, 404)
                     ELSE IF gcsInit /\ ImageDeletions(db[r.in.id]) # <<>>
                     THEN IssueOps(r1, "del", ImageDeletions(db[r.in.id]), "delImgs")
                     ELSE [r1 EXCEPT !.pc = "delWrite"]]
        /\ UNCHANGED <<db, nextId, store, gcsInit, clock>>

\* await Product.findByIdAndDelete settles; lines 357-360
DeleteWrite(s) ==
    LET r == req[s]
    IN  /\ r.pc = "delWrite"
        /\ db' = [id \in DOMAIN db \ {r.in.id} |-> db[id]]
        /\ req' = [req EXCEPT ![s] = Respond(r, 200)]
        /\ UNCHANGED <<nextId, store, gcsInit, clock>>

\* ------------------------------------------------------------------------
\* GET /api/products and GET /api/admin/products
\* ------------------------------------------------------------------------
\* the code unit of a character, for the characters product names are made of
CharCode(c) ==
    CASE c = " " -> 32
      [] c = "P" -> 80
      [] c = "Q" -> 81
      [] c = "a" -> 97
      [] c = "b" -> 98
      [] c = "d" -> 100
      [] c = "e" -> 101
      [] OTHER -> 120

\* a sorts before b or equals it, code unit by code unit
RECURSIVE NameLE(_, _)
NameLE(a, b) ==
    IF a = <<>> THEN TRUE
    ELSE IF b = <<>> THEN FALSE
    ELSE IF CharCode(Head(a)) # CharCode(Head(b))
         THEN CharCode(Head(a)) < CharCode(Head(b))
         ELSE NameLE(Tail(a), Tail(b))

\* the ids of S in ascending order
RECURSIVE Ascending(_)
Ascending(S) ==
    IF S = {} THEN <<>>
    ELSE LET m == CHOOSE x \in S : \A y \in S : x <= y
         IN  <<m>> \o Ascending(S \ {m})

\* id put into a list of ids sorted by the name of their documents, after the
\* ids whose names sort before or equal
RECURSIVE InsertByName(_, _, _)
InsertByName(docs, ids, id) ==
    IF ids = <<>> THEN <<id>>
    ELSE IF NameLE(docs[Head(ids)].name, docs[id].name)
         THEN <<Head(ids)>> \o InsertByName(docs, Tail(ids), id)
         ELSE <<id>> \o ids

\* .sort({ name: 1 })
RECURSIVE SortByName(_, _)
SortByName(docs, ids) ==
    IF ids = <<>> THEN <<>>
    ELSE InsertByName(docs, SortByName(docs, SubSeq(ids, 1, Len(ids) - 1)), ids[Len(ids)])

\* one element of productsForCustomer, lines 17-33
PublicItem(id, product) ==
    [_id |-> id,
     name |-> product.name,
     description |-> product.description,
     productType |-> product.productType,
     baseImageURL |-> product.baseImageURL,
     additionalImageURLs |-> product.additionalImageURLs,
     dimensions |-> [j \in 1..Len(product.dimensions) |->
                       [dimensionName |-> product.dimensions[j].dimensionName,
                        basePrice |-> product.dimensions[j].basePrice]],
     gstRate |-> product.gstRate]

\* the isActive filter left out of the query
PublicListUnfiltered(docs) ==
    LET ids == SortByName(docs, Ascending(DOMAIN docs))
    IN  [i \in 1..Len(ids) |-> PublicItem(ids[i], docs[ids[i]])]

\* the body of the response of GET /api/products
PublicList(docs) ==
    LET ids == SortByName(docs, Ascending({id \in DOMAIN docs : docs[id].isActive}))
    IN  [i \in 1..Len(ids) |-> PublicItem(ids[i], docs[ids[i]])]

\* the body of the response of GET /api/admin/products: every document,
\* newest first
AdminList(docs) ==
    LET ids == Ascending(DOMAIN docs)
    IN  [i \in 1..Len(ids) |->
           LET id == ids[Len(ids) + 1 - i]
           IN  [p \in DOMAIN docs[id] \cup {"_id"} |->
                  IF p = "_id" THEN id ELSE docs[id][p]]]

\* ------------------------------------------------------------------------
\* Gateway promises settle and the awaiting handler resumes
\* ------------------------------------------------------------------------
\* the uploaded additional URLs appended to the stored list
AfterUploadsMerge(r) ==
    CASE r.pc = "postBaseUp" ->
            PostAdditional([r EXCEPT !.data = SetField(@, "baseImageURL", r.ops[1])])
      [] r.pc = "postAddUp" ->
            [r EXCEPT !.data = SetField(@, "additionalImageURLs", r.ops),
                      !.pc = "postSave"]
      [] r.pc = "putBaseUp" ->
            PutAdditional([r EXCEPT !.data = SetField(@, "baseImageURL", r.ops[1])])
      [] r.pc = "putAddUp" ->
            PutFinal([r EXCEPT !.data =
                        SetField(@, "additionalImageURLs", OldAdditional(r) \o r.ops)])

\* the handler code after an await on uploads that all resolved
AfterUploads(r) ==
    CASE r.pc = "postBaseUp" ->
            PostAdditional([r EXCEPT !.data = SetField(@, "baseImageURL", r.ops[1])])
      [] r.pc = "postAddUp" ->
            [r EXCEPT !.data = SetField(@, "additionalImageURLs", r.ops),
                      !.pc = "postSave"]
      [] r.pc = "putBaseUp" ->
            PutAdditional([r EXCEPT !.data = SetField(@, "baseImageURL", r.ops[1])])
      [] r.pc = "putAddUp" ->
            PutFinal([r EXCEPT !.data = SetField(@, "additionalImageURLs", r.ops)])

\* the clear of the base image forgotten once its old object was deleted
AfterDeletionsNoClear(r) ==
    CASE r.pc = "putBaseDel" -> PutBaseUpload(r)
      [] r.pc = "putBaseClrDel" -> PutAdditional(r)
      [] r.pc = "putAddDel" -> PutAdditionalUpload(r)
      [] r.pc = "putAddClrDel" ->
            PutFinal([r EXCEPT !.data = SetField(@, "additionalImageURLs", <<>>)])
      [] r.pc = "delImgs" -> [r EXCEPT !.pc = "delWrite"]

\* the handler code after an await on deletions that all settled
AfterDeletions(r) ==
    CASE r.pc = "putBaseDel" -> PutBaseUpload(r)
      [] r.pc = "putBaseClrDel" ->
            PutAdditional([r EXCEPT !.data = SetField(@, "baseImageURL", Null)])
      [] r.pc = "putAddDel" -> PutAdditionalUpload(r)
      [] r.pc = "putAddClrDel" ->
            PutFinal([r EXCEPT !.data = SetField(@, "additionalImageURLs", <<>>)])
      [] r.pc = "delImgs" -> [r EXCEPT !.pc = "delWrite"]

\* a rejected upload caught and logged like a rejected deletion
AwaitUploadsSwallow(r, ok) ==
    IF r.pc = "done" THEN r
    ELSE IF r.pending = {} THEN AfterUploads(r)
    ELSE r

\* await uploadFileToGCS(...) / await Promise.all(uploadPromises), when one
\* more upload settled: throws into the catch block (500) at the first
\* rejection, resumes when every upload resolved
AwaitUploads(r, ok) ==
    IF r.pc = "done" THEN r
    ELSE IF ~ok THEN Respond(r, 500)
    ELSE IF r.pending = {} THEN AfterUploads(r)
    ELSE r

\* one uploadFileToGCS promise settles
UploadSettle(s, i, remoteOk) ==
    LET r == req[s]
        ok == UploadResolves(gcsInit, remoteOk)
        r1 == [r EXCEPT !.pending = @ \ {i}, !.uploadFailed = @ \/ ~ok]
    IN  /\ r.kind = "put"
        /\ i \in r.pending
        /\ store' = UploadStore(store, gcsInit, r.ops[i], remoteOk)
        /\ req' = [req EXCEPT ![s] = AwaitUploads(r1, ok)]
        /\ UNCHANGED <<db, nextId, gcsInit, clock>>

\* a rejected deletion left uncaught: it reaches the handler's catch block
AwaitDeletionsThrow(r, ok) ==
    IF ~ok THEN Respond(r, 500)
    ELSE IF r.pending = {} THEN AfterDeletions(r) ELSE r

\* await deleteFileFromGCS(...).catch(...) / await Promise.allSettled(...),
\* when one more deletion settled: the rejection is caught and logged, the
\* handler resumes when every deletion settled
AwaitDeletions(r, ok) ==
    IF r.pending = {} THEN AfterDeletions(r) ELSE r

\* one deleteFileFromGCS promise settles
DeleteSettle(s, i, remoteOk) ==
    LET r == req[s]
        ok == DeleteResolves(gcsInit, r.ops[i], remoteOk)
        r1 == [r EXCEPT !.pending = @ \ {i},
                        !.failedDeletes = IF ok THEN @ ELSE @ \cup {i}]
    IN  /\ r.kind = "del"
        /\ i \in r.pending
        /\ remoteOk \/ DeleteCallsRemote(gcsInit, r.ops[i])
        /\ store' = DeleteStore(store, gcsInit, r.ops[i], remoteOk)
        /\ req' = [req EXCEPT ![s] = AwaitDeletions(r1, ok)]
        /\ UNCHANGED <<db, nextId, gcsInit, clock>>

\* the handler has returned and every promise it started has settled:
\* the invocation is over
Return(s) ==
    /\ req[s].pc = "done"
    /\ req[s].pending = {}
    /\ req' = [req EXCEPT ![s] = IdleReq]
    /\ UNCHANGED <<db, nextId, store, gcsInit, clock>>

\* a caller other than the route handlers calls deleteFileFromGCS(url) and
\* the promise settles; the slot records the call, the store it met and
\* whether the promise rejected
GatewayDelete(s, Urls) ==
    /\ Free(s)
    /\ \E url \in Urls, remoteOk \in BOOLEAN :
          /\ store' = DeleteStore(store, gcsInit, url, remoteOk)
          /\ req' = [req EXCEPT ![s] =
                       [IdleReq EXCEPT
                          !.op = "gatewayDelete", !.pc = "done",
                          !.in = [id |-> 0, url |-> url, remoteOk |-> remoteOk,
                                  objs |-> store],
                          !.kind = "del", !.ops = <<url>>,
                          !.calls = <<Call("del", url)>>,
                          !.failedDeletes =
                              IF DeleteOutcome(store, gcsInit, url, remoteOk) = "resolved"
                              THEN {} ELSE {1}]]
    /\ UNCHANGED <<db, nextId, gcsInit, clock>>

\* a caller other than the route handlers calls uploadFileToGCS for a file of
\* Files and the promise settles
GatewayUpload(s, Files) ==
    /\ Free(s)
    /\ \E file \in Files, remoteOk \in BOOLEAN :
          LET url == UploadUrl(file, BaseFolder, clock)
          IN  /\ store' = UploadStore(store, gcsInit, url, remoteOk)
              /\ req' = [req EXCEPT ![s] =
                           [IdleReq EXCEPT
                              !.op = "gatewayUpload", !.pc = "done",
                              !.in = [id |-> 0, url |-> url, remoteOk |-> remoteOk,
                                      objs |-> store],
                              !.kind = "put", !.ops = <<url>>,
                              !.calls = <<Call("put", url)>>,
                              !.uploadFailed = ~UploadResolves(gcsInit, remoteOk)]]
    /\ UNCHANGED <<db, nextId, gcsInit, clock>>

\* the clock advances between two steps
Tick ==
    /\ clock < MaxClock
    /\ clock' = clock + 1
    /\ UNCHANGED <<db, nextId, store, gcsInit, req>>

\* ------------------------------------------------------------------------
\* Requests
\* ------------------------------------------------------------------------
\* sequences over S of length 0..n
SeqsUpTo(S, n) == UNION {[1..k -> S] : k \in 0..n}

NoDimensions == [isArray |-> FALSE, items |-> <<>>]

DimArray(items) == [isArray |-> TRUE, items |-> items]

NoUrls == [kind |-> "absent", urls |-> <<>>]

\* a complete, valid text-only create body
PostBody ==
    [id |-> 0,
     name |-> <<"P">>,
     description |-> <<"d">>,
     productTypeSelect |-> <<"w","i","r","e","-","p","i","n">>,
     newProductType |-> Undefined,
     gstRate |-> Undefined,
     isActive |-> <<"t","r","u","e">>,
     dimensions |-> DimArray(<<[dimensionName |-> <<"a">>, basePrice |-> <<"5">>]>>),
     baseImage |-> <<>>,
     additionalImages |-> <<>>,
     fileValidationError |-> FALSE,
     baseImageURL |-> "absent",
     additionalImageURLs |-> NoUrls]

\* an update body with no field and no file
PutBody(id) ==
    [PostBody EXCEPT !.id = id,
                     !.name = Undefined,
                     !.description = Undefined,
                     !.productTypeSelect = Undefined,
                     !.isActive = Undefined,
                     !.dimensions = NoDimensions]

\* --- requests that vary the images ---
\* file.mimetype as <<type, subtype>>
ImagePng == <<"image", "png">>

ImageFiles == {[base |-> <<"x">>, ext |-> ".png", mimetype |-> ImagePng]}

BaseImageInputs == SeqsUpTo(ImageFiles, 1)

AdditionalInputs == SeqsUpTo(ImageFiles, MaxAdditional)

ClearInputs == {"absent", "clear"}

\* a URL outside the bucket, as an administrator may submit in the body
ExternalUrl == [bucket |-> "other", folder |-> "", base |-> <<"e">>, t |-> 0, ext |-> ".png"]

\* req.body.additionalImageURLs: missing, the empty string, or an array
UrlInputs ==
    {NoUrls, [kind |-> "clear", urls |-> <<>>], [kind |-> "array", urls |-> <<ExternalUrl>>]}

ImagePosts ==
    {[PostBody EXCEPT !.baseImage = b, !.additionalImages = a] :
        b \in BaseImageInputs, a \in AdditionalInputs}

ImagePuts ==
    {[PutBody(id) EXCEPT !.baseImage = b, !.additionalImages = a,
                         !.baseImageURL = bc,
                         !.additionalImageURLs = ac] :
        id \in Ids, b \in BaseImageInputs, a \in AdditionalInputs,
        bc \in ClearInputs, ac \in UrlInputs}

\* --- requests that vary the dimensions ---
RawNames == {Undefined, <<" ">>, <<" ", "a">>}

RawPrices == {<<>>, <<"5">>, <<"7">>, <<"-", "5">>, <<"x">>}

\* a missing or blank name is tried with an empty price and with a valid one
RawEntries ==
    {e \in [dimensionName : RawNames, basePrice : RawPrices] :
        e.dimensionName = <<" ", "a">> \/ e.basePrice \in {<<>>, <<"5">>}}

\* req.body.dimensions: missing, or an array of 0..MaxDims raw entries
DimensionInputs ==
    {NoDimensions} \cup {DimArray(items) : items \in SeqsUpTo(RawEntries, MaxDims)}

DimPosts == {[PostBody EXCEPT !.dimensions = d] : d \in DimensionInputs}

DimPuts == {[PutBody(id) EXCEPT !.dimensions = d] : id \in Ids, d \in DimensionInputs}

\* --- requests that vary which fields are present ---
OneFile == SeqsUpTo(ImageFiles, 1)

FieldPosts ==
    {[PostBody EXCEPT !.baseImage = f, !.additionalImages = f] : f \in OneFile}

FieldPuts ==
    {[PutBody(id) EXCEPT !.name = n, !.description = d, !.productTypeSelect = pt,
                         !.gstRate = g, !.isActive = ia, !.dimensions = dm] :
        id \in Ids,
        n \in {Undefined, <<"Q">>},
        d \in {Undefined, <<"e">>},
        pt \in {Undefined, <<"A","O","-","f","i","x","a","t","o","r">>},
        g \in {Undefined, <<"0",".","5">>},
        ia \in {Undefined, <<"f","a","l","s","e">>},
        dm \in {NoDimensions,
                 DimArray(<<[dimensionName |-> <<"b">>, basePrice |-> <<"7">>]>>)}}

\* --- requests that vary the product type ---
TypeSelects ==
    { <<"w","i","r","e","-","p","i","n">>,
      <<" ","O","t","h","e","r">>,
      <<"A","O","-","f","i","x","a","t","o","r">> }

\* req.body.newProductType: missing, blank, free text, free text whose slug is
\* a value of the enum
NewTypes ==
    { Undefined, <<" ">>, <<"Q"," "," ","a">>, <<"W","i","r","e"," ","p","i","n">> }

TypePosts ==
    {[PostBody EXCEPT !.productTypeSelect = sel, !.newProductType = new] :
        sel \in TypeSelects, new \in NewTypes}

TypePuts ==
    {[PutBody(id) EXCEPT !.productTypeSelect = sel, !.newProductType = new] :
        id \in Ids, sel \in TypeSelects \cup {Undefined}, new \in NewTypes}

\* --- requests that carry a file together with fields the handler or the
\* schema rejects ---
NegativeDims == DimArray(<<[dimensionName |-> <<"a">>, basePrice |-> <<"-","5">>]>>)

\* a submitted list whose only entry is blank
BlankDims == DimArray(<<[dimensionName |-> Undefined, basePrice |-> <<>>]>>)

RejectPosts ==
    {[PostBody EXCEPT !.baseImage = f, !.name = n, !.dimensions = d] :
        f \in OneFile, n \in {<<"P">>, Undefined},
        d \in {PostBody.dimensions, NegativeDims, DimArray(<<>>)}}

RejectPuts ==
    {[PutBody(id) EXCEPT !.baseImage = f, !.baseImageURL = bc, !.gstRate = g,
                         !.dimensions = d] :
        id \in Ids, f \in OneFile, bc \in ClearInputs,
        g \in {Undefined, <<"5">>},
        d \in {NoDimensions, NegativeDims, BlankDims, DimArray(<<>>)}}

\* --- requests that vary the additional images over two distinct files ---
TwoFiles ==
    {[base |-> <<"x">>, ext |-> ".png", mimetype |-> ImagePng],
     [base |-> <<"y"," ","z">>, ext |-> ".png", mimetype |-> ImagePng]}

AdditionalLists == SeqsUpTo(TwoFiles, MaxAdditional)

AdditionalPosts == {[PostBody EXCEPT !.additionalImages = a] : a \in AdditionalLists}

AdditionalPuts ==
    {[PutBody(id) EXCEPT !.additionalImages = a, !.isActive = ia] :
        id \in Ids, a \in AdditionalLists, ia \in {Undefined, <<"f","a","l","s","e">>}}

\* --- direct calls of the gateway ---
\* the URLs a caller may pass to deleteFileFromGCS: null, a URL outside the
\* bucket, the URLs uploadFileToGCS can have returned
GatewayUrls ==
    {Null, ExternalUrl}
    \cup {UploadUrl(file, BaseFolder, t) : file \in TwoFiles, t \in 0..MaxClock}

\* --- text-only requests next to requests with a file or a clear sentinel ---
StoragePosts == {[PostBody EXCEPT !.baseImage = f] : f \in OneFile}

StoragePuts ==
    {[PutBody(id) EXCEPT !.baseImage = f, !.baseImageURL = bc, !.isActive = ia] :
        id \in Ids, f \in OneFile, bc \in ClearInputs,
        ia \in {Undefined, <<"f","a","l","s","e">>}}

\* --- requests whose files are not all images ---
MixedFiles ==
    ImageFiles
    \cup {[base |-> <<"d">>, ext |-> ".pdf", mimetype |-> <<"application", "pdf">>]}

FilePosts ==
    {[PostBody EXCEPT !.baseImage = b, !.additionalImages = a] :
        b \in SeqsUpTo(MixedFiles, 1), a \in SeqsUpTo(MixedFiles, MaxAdditional)}

FilePuts ==
    {[PutBody(id) EXCEPT !.description = <<"Q">>,
                         !.baseImage = b, !.additionalImages = a] :
        id \in Ids,
        b \in SeqsUpTo(MixedFiles, 1), a \in SeqsUpTo(MixedFiles, MaxAdditional)}

\* --- text-only requests of two administrators ---
RacePosts == {PostBody}

\* an update sets name, description or both, to values no create request
\* uses, or sets a gstRate the schema refuses
RacePuts ==
    ({[PutBody(id) EXCEPT !.name = n, !.description = d] :
         id \in Ids,
         n \in {Undefined, <<"Q">>, <<"W">>},
         d \in {Undefined, <<"e">>}}
     \ {PutBody(id) : id \in Ids})
    \cup {[PutBody(id) EXCEPT !.gstRate = g] : id \in Ids, g \in {<<"5">>, <<"x">>}}

\* --- requests that vary gstRate and isActive ---
\* req.body.gstRate: missing, zero, inside [0,1], one, above one, negative,
\* not a number
RawGstRates ==
    { Undefined, <<"0">>, <<"0",".","5">>, <<"1">>, <<"5">>, <<"-","1">>, <<"x">> }

DefaultPosts ==
    {[PostBody EXCEPT !.gstRate = g, !.isActive = ia] :
        g \in RawGstRates,
        ia \in {Undefined, <<"t","r","u","e">>, <<"f","a","l","s","e">>}}

DefaultPuts ==
    {[PutBody(id) EXCEPT !.gstRate = g, !.isActive = ia] :
        id \in Ids, g \in RawGstRates, ia \in {Undefined, <<"t","r","u","e">>}}

\* ------------------------------------------------------------------------
\* Specifications
\* ------------------------------------------------------------------------
\* the repository steps of the three handlers, in slot s
RepositoryStep(s) ==
    \/ PostSave(s)
    \/ PutFind(s)
    \/ PutWrite(s)
    \/ DeleteFind(s)
    \/ DeleteWrite(s)

\* the gateway steps, in slot s
GatewayStep(s) ==
    \/ \E i \in 1..MaxAdditional + 1, remoteOk \in BOOLEAN : UploadSettle(s, i, remoteOk)
    \/ \E i \in 1..MaxAdditional + 1, remoteOk \in BOOLEAN : DeleteSettle(s, i, remoteOk)

\* one administrator sending requests one after the other, images varying
Next ==
    \/ PostReceive(1, ImagePosts)
    \/ PutReceive(1, ImagePuts)
    \/ DeleteReceive(1)
    \/ RepositoryStep(1)
    \/ GatewayStep(1)
    \/ Return(1)
    \/ Tick

Spec == Init /\ [][Next]_vars

\* one administrator sending text-only requests, dimensions varying
NextDims ==
    \/ PostReceive(1, DimPosts)
    \/ PutReceive(1, DimPuts)
    \/ DeleteReceive(1)
    \/ RepositoryStep(1)
    \/ Return(1)

\* one administrator sending update requests, the present fields varying
NextFields ==
    \/ PostReceive(1, FieldPosts)
    \/ PutReceive(1, FieldPuts)
    \/ DeleteReceive(1)
    \/ RepositoryStep(1)
    \/ GatewayStep(1)
    \/ Return(1)
    \/ Tick

SpecFields == Init /\ [][NextFields]_vars

\* one administrator sending text-only requests, the product type varying
NextTypes ==
    \/ PostReceive(1, TypePosts)
    \/ PutReceive(1, TypePuts)
    \/ DeleteReceive(1)
    \/ RepositoryStep(1)
    \/ Return(1)

SpecTypes == Init /\ [][NextTypes]_vars

\* one administrator sending requests with files and rejected field values
NextReject ==
    \/ PostReceive(1, RejectPosts)
    \/ PutReceive(1, RejectPuts)
    \/ DeleteReceive(1)
    \/ RepositoryStep(1)
    \/ GatewayStep(1)
    \/ Return(1)
    \/ Tick

SpecReject == Init /\ [][NextReject]_vars

\* one administrator sending requests whose additional images vary
NextAdditional ==
    \/ PostReceive(1, AdditionalPosts)
    \/ PutReceive(1, AdditionalPuts)
    \/ DeleteReceive(1)
    \/ RepositoryStep(1)
    \/ GatewayStep(1)
    \/ Return(1)
    \/ Tick

SpecAdditional == Init /\ [][NextAdditional]_vars

\* the gateway called directly, uploads and deletes in any order
NextGateway ==
    \/ GatewayUpload(1, TwoFiles)
    \/ GatewayDelete(1, GatewayUrls)
    \/ Return(1)
    \/ Tick

SpecGateway == Init /\ [][NextGateway]_vars

\* one administrator, storage initialized or not, requests with and without
\* image work
NextStorage ==
    \/ PostReceive(1, StoragePosts)
    \/ PutReceive(1, StoragePuts)
    \/ DeleteReceive(1)
    \/ RepositoryStep(1)
    \/ GatewayStep(1)
    \/ Return(1)
    \/ Tick

SpecStorage == Init /\ [][NextStorage]_vars

\* one administrator sending requests whose files are images or documents
NextFiles ==
    \/ PostReceive(1, FilePosts)
    \/ PutReceive(1, FilePuts)
    \/ DeleteReceive(1)
    \/ RepositoryStep(1)
    \/ GatewayStep(1)
    \/ Return(1)
    \/ Tick

SpecFiles == Init /\ [][NextFiles]_vars

\* the gateway steps in slot s when no remote call fails
GatewaySucceeds(s) ==
    \/ \E i \in 1..MaxAdditional + 1 : UploadSettle(s, i, TRUE)
    \/ \E i \in 1..MaxAdditional + 1 : DeleteSettle(s, i, TRUE)

\* one administrator sending requests one after the other, storage
\* initialized and every gateway call succeeding
NextNoFailure ==
    \/ PostReceive(1, ImagePosts)
    \/ PutReceive(1, ImagePuts)
    \/ DeleteReceive(1)
    \/ RepositoryStep(1)
    \/ GatewaySucceeds(1)
    \/ Return(1)
    \/ Tick

\* two administrators whose text-only requests interleave at every await
NextRace ==
    \/ PostReceive(1, RacePosts)
    \/ \E s \in Slots :
          \/ PutReceive(s, RacePuts)
          \/ DeleteReceive(s)
          \/ RepositoryStep(s)
          \/ Return(s)

SpecRace == Init /\ [][NextRace]_vars

\* one administrator sending text-only requests, gstRate and isActive varying
NextDefaults ==
    \/ PostReceive(1, DefaultPosts)
    \/ PutReceive(1, DefaultPuts)
    \/ DeleteReceive(1)
    \/ RepositoryStep(1)
    \/ Return(1)

SpecDefaults == Init /\ [][NextDefaults]_vars

InitDims == Init /\ gcsInit

SpecDims == InitDims /\ [][NextDims]_vars

SpecNoFailure == InitDims /\ [][NextNoFailure]_vars

\* ------------------------------------------------------------------------
\* Properties
\* ------------------------------------------------------------------------
\* the administrator's request
R == req[1]

Done(op) == R.op = op /\ R.pc = "done"

\* the request addressed a product that was stored when it arrived
Addressed == R.in.id \in DOMAIN R.before

\* a raw field carries something other than blanks
Present(x) == x # Undefined /\ Trim(x) # <<>>

\* a raw entry the dimension parser keeps: a name and a price that is a number
Complete(e) == Present(e.dimensionName) /\ ~ParseFloat(e.basePrice).nan

Blank(e) == ~Present(e.dimensionName) /\ ~Present(e.basePrice)

Partial(e) == Present(e.dimensionName) # Present(e.basePrice)

\* the complete entries of a raw list, in submission order
CompleteEntries(items) ==
    LET kept == SelectSeq(items, Complete)
    IN  [i \in 1..Len(kept) |->
           [dimensionName |-> Trim(kept[i].dimensionName),
            basePrice |-> ParseFloat(kept[i].basePrice).val]]

Items == R.in.dimensions.items

SubmitsDimensions == R.in.dimensions.isArray

\* C1: every persisted product has at least one dimension; an update whose
\* submitted dimensions are an empty array or hold no valid entry is rejected
\* and leaves the repository as it was
C1_DimensionsNeverEmpty ==
    /\ \A id \in DOMAIN db : Len(db[id].dimensions) >= 1
    /\ (Done("put") /\ SubmitsDimensions /\ CompleteEntries(Items) = <<>>)
          => /\ R.status \in {400, 404}
             /\ Addressed => R.status = 400
             /\ db = R.before

\* an update of a stored product with dimensions: [] was rejected
C1_Witness ==
    /\ Done("put") /\ Addressed
    /\ SubmitsDimensions /\ Items = <<>>
    /\ R.status = 400

\* C2: in an update with a new base image file, a delete of the previous base
\* image has been issued only if the upload of the new one has resolved
C2_DeleteOnlyAfterPut ==
    (/\ R.op = "put"
     /\ R.in.baseImage # <<>>
     /\ R.existing # <<>>
     /\ \E i \in 1..Len(R.calls) : R.calls[i] = Call("del", OldBase(R)))
        => \E j \in 1..Len(R.calls) :
              /\ R.calls[j].kind = "put"
              /\ R.calls[j].url.folder = BaseFolder
              /\ "baseImageURL" \in DOMAIN R.data

\* C3: a request one of whose uploads failed has ended in an error and the
\* repository is as it was when the request arrived
C3_UploadFailureAborts ==
    R.uploadFailed => /\ R.pc = "done"
                      /\ R.status = 500
                      /\ db = R.before

\* an update of a stored product ended after one of its uploads failed
C3_Witness == Done("put") /\ Addressed /\ R.uploadFailed

\* C4: a delete request for a stored product ends in success with the product
\* absent, whichever of the image deletions failed
C4_DeleteSucceeds ==
    (Done("delete") /\ Addressed) => /\ R.status = 200
                                     /\ R.in.id \notin DOMAIN db

\* a product with two or more images was deleted and every image deletion failed
C4_Witness ==
    /\ Done("delete") /\ Addressed
    /\ Len(R.ops) >= 2
    /\ R.failedDeletes = 1..Len(R.ops)
    /\ R.in.id \notin DOMAIN db

\* the image URLs of a stored product
ImageUrls(product) ==
    (IF product.baseImageURL # Null THEN {product.baseImageURL} ELSE {})
    \cup {product.additionalImageURLs[i] : i \in 1..Len(product.additionalImageURLs)}

\* the delete handler is past its image deletions: a gateway delete was issued
\* for every image URL of the product and all of them have settled
DeletesIssuedAndSettled ==
    /\ \A url \in ImageUrls(R.existing[1]) :
          \E i \in 1..Len(R.calls) : R.calls[i] = Call("del", url)
    /\ R.pending = {}

PastImageDeletions == R.op = "delete" /\ R.existing # <<>> /\ R.pc \in {"delWrite", "done"}

\* C5 as stated: whenever the delete handler issues or has issued the
\* repository delete, a gateway delete was issued for every image URL
C5_AsStated == PastImageDeletions => DeletesIssuedAndSettled

\* C5, amended: with the storage gateway initialized, the repository delete is
\* issued only after a gateway delete was issued for the base image and every
\* additional image and all of them settled; with the gateway not initialized
\* the delete handler issues no gateway delete
C5_DeletesBeforeRepositoryDelete ==
    /\ (gcsInit /\ PastImageDeletions) => DeletesIssuedAndSettled
    /\ (~gcsInit /\ R.op = "delete") => R.calls = <<>>

\* the repository delete of a product with a base image and additional images
\* is about to be issued
C5_Witness ==
    /\ R.op = "delete" /\ R.pc = "delWrite"
    /\ R.existing[1].baseImageURL # Null
    /\ R.existing[1].additionalImageURLs # <<>>
    /\ Len(R.calls) >= 2

\* the request leaves the schema path p alone
FieldAbsent(p) ==
    CASE p = "name" -> R.in.name = Undefined
      [] p = "description" -> R.in.description = Undefined
      [] p = "productType" -> R.in.productTypeSelect = Undefined
      [] p = "gstRate" -> R.in.gstRate = Undefined
      [] p = "isActive" -> R.in.isActive = Undefined
      [] p = "dimensions" -> ~SubmitsDimensions
      [] p = "baseImageURL" -> R.in.baseImage = <<>> /\ R.in.baseImageURL = "absent"
      [] p = "additionalImageURLs" ->
            R.in.additionalImages = <<>> /\ R.in.additionalImageURLs.kind = "absent"

\* the update request carries isActive=false and nothing else
OnlyIsActiveFalse ==
    /\ R.in.isActive = <<"f","a","l","s","e">>
    /\ \A p \in DOMAIN R.before[R.in.id] : p # "isActive" => FieldAbsent(p)

\* C6: after an update of a stored product every field absent from the request
\* is as it was; an update carrying only isActive=false succeeds and changes
\* isActive alone
C6_AbsentFieldsUnchanged ==
    (Done("put") /\ Addressed)
       => /\ R.in.id \in DOMAIN db
          /\ \A p \in DOMAIN db[R.in.id] :
                FieldAbsent(p) => db[R.in.id][p] = R.before[R.in.id][p]
          /\ OnlyIsActiveFalse
                => /\ R.status = 200
                   /\ db[R.in.id] = [R.before[R.in.id] EXCEPT !.isActive = FALSE]

\* an active product with images was updated with isActive=false alone
C6_Witness ==
    /\ Done("put") /\ Addressed /\ OnlyIsActiveFalse
    /\ R.before[R.in.id].isActive
    /\ R.before[R.in.id].baseImageURL # Null
    /\ R.before[R.in.id].additionalImageURLs # <<>>
    /\ ~db[R.in.id].isActive

NonNegative(dims) == \A i \in 1..Len(dims) : dims[i].basePrice >= 0

WellFormed(dims) ==
    /\ Len(dims) >= 1
    /\ \A i \in 1..Len(dims) : dims[i].dimensionName # <<>> /\ dims[i].basePrice >= 0

\* C8: a create request goes on to save only with a non-empty parsed list, and
\* ends either with a persisted product whose dimensions are non-empty with
\* non-empty names and prices >= 0, or in an error with nothing persisted
C8_ParsingTotal ==
    /\ \A id \in DOMAIN db : WellFormed(db[id].dimensions)
    /\ (R.op = "post" /\ R.pc = "postSave") => R.data.dimensions # <<>>
    /\ Done("post")
          => \/ /\ R.status = 201
                /\ R.in.id \in DOMAIN db
                /\ WellFormed(db[R.in.id].dimensions)
             \/ /\ R.status >= 400
                /\ db = R.before

\* a create whose parsed list holds a negative price ended in an error
C8_Witness ==
    /\ Done("post") /\ SubmitsDimensions
    /\ CompleteEntries(Items) # <<>>
    /\ ~NonNegative(CompleteEntries(Items))
    /\ R.status = 400
    /\ db = R.before

\* C9: a create request with an entry that has exactly one of dimensionName and
\* basePrice ends in a validation error and nothing is persisted
C9_PartialEntryRejected ==
    (Done("post") /\ SubmitsDimensions /\ \E i \in 1..Len(Items) : Partial(Items[i]))
       => /\ R.status = 400
          /\ db = R.before

\* C10: the parsed list is the valid entries in input order, repeated entries
\* kept; a blank entry among valid ones does not make the create fail
C10_BlankSkippedOrderKept ==
    /\ (R.op = "post" /\ R.pc = "postSave") => R.data.dimensions = CompleteEntries(Items)
    /\ (Done("post") /\ R.status = 201)
          => db[R.in.id].dimensions = CompleteEntries(Items)
    /\ (/\ Done("post") /\ SubmitsDimensions
        /\ \A i \in 1..Len(Items) : Blank(Items[i]) \/ Complete(Items[i])
        /\ CompleteEntries(Items) # <<>>
        /\ NonNegative(CompleteEntries(Items)))
          => R.status = 201

\* a create with a blank entry before a valid one persisted the valid one alone
C10_Witness ==
    /\ Done("post") /\ SubmitsDimensions
    /\ Len(Items) = 2
    /\ Blank(Items[1]) /\ Complete(Items[2])
    /\ R.status = 201
    /\ Len(db[R.in.id].dimensions) = 1

Other == <<"o","t","h","e","r">>

\* the selected type, trimmed and lowercased
Selected == ToLower(Trim(R.in.productTypeSelect))

\* the slug of the free text: trimmed, lowercased, whitespace runs hyphenated
Slug == ReplaceSpaceRuns(ToLower(Trim(R.in.newProductType)), "-")

\* C11: a create with the sentinel "other" and non-empty free text succeeds and
\* persists the slug of the free text as productType, whatever the free text;
\* with another selected type the persisted productType is its lowercase-trimmed
\* literal
C11_FreeTextTypeAccepted ==
    Done("post")
       => IF Selected = Other
          THEN Present(R.in.newProductType)
                  => /\ R.status = 201
                     /\ R.in.id \in DOMAIN db
                     /\ db[R.in.id].productType = Slug
          ELSE R.status = 201 => db[R.in.id].productType = Selected

\* C12: a create or update request that ended in a validation error has issued
\* no gateway put and no gateway delete
C12_ValidationBeforeIO ==
    (R.op \in {"post", "put"} /\ R.pc = "done" /\ R.status = 400) => R.calls = <<>>

\* the positions in the calls of R of the gateway calls of a kind to a folder
CallsTo(kind, folder) ==
    {j \in 1..Len(R.calls) : R.calls[j].kind = kind /\ R.calls[j].url.folder = folder}

\* an upload of the additional images of R failed
AdditionalUploadFailed ==
    /\ R.uploadFailed
    /\ R.ops # <<>>
    /\ R.ops[1].folder = AdditionalFolder

\* C13: when an upload of one of the N additional images of a create fails, the
\* request ends in an error and a put was issued for each of the N files
C13_FanOutComplete ==
    (R.op = "post" /\ AdditionalUploadFailed)
       => /\ R.pc = "done"
          /\ R.status = 500
          /\ Cardinality(CallsTo("put", AdditionalFolder)) = Len(R.in.additionalImages)

\* a create with two additional images failed on its first settled upload
\* while the sibling upload was still in flight
C13_Witness ==
    /\ R.op = "post" /\ AdditionalUploadFailed
    /\ Len(R.in.additionalImages) = 2
    /\ R.pending # {}

\* C14: a create or update request that has responded has none of the uploads
\* it started still in flight
C14_RespondsAfterAllSettled ==
    (R.op \in {"post", "put"} /\ R.pc = "done" /\ R.kind = "put") => R.pending = {}

\* the URLs of the gateway calls of a kind to a folder, in call order
UrlsOf(kind, folder) ==
    LET sel == SelectSeq(R.calls,
                         LAMBDA c : c.kind = kind /\ c.url.folder = folder)
    IN  [j \in 1..Len(sel) |-> sel[j].url]

\* url is a key the gateway derives for file in folder
KeyOf(url, file, folder) ==
    /\ IsBucketUrl(url)
    /\ url.folder = folder
    /\ url.base = ReplaceSpaceRuns(file.base, "_")
    /\ url.ext = file.ext

\* the uploads of the additional images of R were started and all resolved
AdditionalUploaded ==
    /\ R.in.additionalImages # <<>>
    /\ R.kind = "put" /\ R.ops # <<>> /\ R.ops[1].folder = AdditionalFolder
    /\ R.pending = {}
    /\ ~R.uploadFailed

\* C15: after an update of a stored product with new additional-image files,
\* all uploads having succeeded, the persisted additionalImageURLs is the list
\* of the uploaded URLs in file order, and a gateway delete was issued for
\* every URL of the old list
C15_AdditionalImagesReplaced ==
    (Done("put") /\ Addressed /\ AdditionalUploaded)
       => /\ R.status = 200
          /\ db[R.in.id].additionalImageURLs = UrlsOf("put", AdditionalFolder)
          /\ Len(db[R.in.id].additionalImageURLs) = Len(R.in.additionalImages)
          /\ \A i \in 1..Len(R.in.additionalImages) :
                KeyOf(db[R.in.id].additionalImageURLs[i],
                      R.in.additionalImages[i], AdditionalFolder)
          /\ \A i \in 1..Len(OldAdditional(R)) :
                \E j \in 1..Len(R.calls) : R.calls[j] = Call("del", OldAdditional(R)[i])

\* a product with two additional images was updated with two other files in
\* another order
C15_Witness ==
    /\ Done("put") /\ Addressed /\ AdditionalUploaded
    /\ Len(OldAdditional(R)) = 2
    /\ Len(R.in.additionalImages) = 2
    /\ R.in.additionalImages[1] # R.in.additionalImages[2]
    /\ OldAdditional(R)[1].base # db[R.in.id].additionalImageURLs[1].base
    /\ R.status = 200

\* the request carries the clear sentinel for the base image and no base file
BaseClear == R.in.baseImage = <<>> /\ R.in.baseImageURL = "clear"

\* the request carries the clear sentinel for the additional images and no
\* additional file
AdditionalClear ==
    R.in.additionalImages = <<>> /\ R.in.additionalImageURLs.kind = "clear"

\* R issued a gateway delete for url
DeleteIssued(url) == \E j \in 1..Len(R.calls) : R.calls[j] = Call("del", url)

\* the URLs the product held in its image fields when the request arrived
WasBase == R.before[R.in.id].baseImageURL

WasAdditional == R.before[R.in.id].additionalImageURLs

WithoutFailures(r) == [r EXCEPT !.failedDeletes = {}]

\* one of the cleanup deletes of R settles in this step
CleanupSettles == R.kind = "del" /\ R.pending # {} /\ req' # req

\* C17: whenever a cleanup delete of an update or delete request settles, the
\* repository is untouched and the handler goes on exactly as it does when the
\* delete succeeds, so the response and the persisted state do not depend on
\* the outcome of the delete
C17_DeleteOutcomeIrrelevant ==
    [][CleanupSettles
         => /\ db' = db
            /\ \E i \in R.pending :
                  WithoutFailures(req'[1]) =
                     WithoutFailures(AwaitDeletions([R EXCEPT !.pending = @ \ {i}], TRUE))]_vars

\* an update that cleared the additional images ended in success although
\* every delete of the two old objects failed
C17_Witness ==
    /\ Done("put") /\ Addressed /\ AdditionalClear
    /\ Len(R.ops) = 2
    /\ R.failedDeletes = {1, 2}
    /\ R.status = 200
    /\ db[R.in.id].additionalImageURLs = <<>>

\* the update handler's own checks reject the body before the product is fetched
HandlerRejects ==
    \/ /\ Truthy(R.in.productTypeSelect)
       /\ Selected = Other
       /\ (~Truthy(R.in.newProductType) \/ Slug = <<>>)
    \/ /\ SubmitsDimensions
       /\ Items # <<>>
       /\ CompleteEntries(Items) = <<>>

\* the request carries files and the storage gateway is not initialized
StorageRejects == HasFiles(R.in) /\ ~gcsInit

\* an update or delete request for an id that resolved to nothing has ended
UnknownIdDone == R.op \in {"put", "delete"} /\ R.pc = "done" /\ ~Addressed

GatewayDeleted == R.op = "gatewayDelete" /\ R.pc = "done"

\* its promise resolved
DeleteSucceeded == R.failedDeletes = {}

\* C19: with storage initialized, a delete of a bucket URL whose remote call
\* does not fail for a reason other than not-found returns success, whether
\* the object was stored, was already deleted or never existed; afterwards the
\* object is not stored, so a second delete of the URL meets a missing object
\* and succeeds again
C19_DeleteIdempotent ==
    (GatewayDeleted /\ gcsInit /\ IsBucketUrl(R.in.url) /\ R.in.remoteOk)
       => /\ DeleteSucceeded
          /\ R.in.url \notin store
          /\ DeleteOutcome(store, gcsInit, R.in.url, TRUE) = "resolved"

\* a delete of a bucket URL whose object was not stored returned success
C19_Witness ==
    /\ GatewayDeleted /\ gcsInit /\ IsBucketUrl(R.in.url) /\ R.in.remoteOk
    /\ R.in.url \notin R.in.objs
    /\ DeleteSucceeded

\* C20: a delete of a URL outside the bucket returns success, makes no remote
\* call and leaves the object store as it was
C20_ForeignUrlNoOp ==
    (GatewayDeleted /\ R.in.url # Null /\ ~IsBucketUrl(R.in.url))
       => /\ DeleteSucceeded
          /\ ~DeleteCallsRemote(gcsInit, R.in.url)
          /\ store = R.in.objs

\* the request carries no file and no clear sentinel
TextOnly ==
    /\ ~HasFiles(R.in)
    /\ R.in.baseImageURL # "clear"
    /\ R.in.additionalImageURLs.kind # "clear"

\* C21: a text-only create or update ends the same way whether or not storage
\* is initialized (a create is stored, an update of only isActive changes
\* isActive alone, an update with nothing in it is a validation error), and
\* only a create or update with a file or a clear sentinel issues gateway calls
C21_TextOnlyNeedsNoStorage ==
    /\ (R.op \in {"post", "put"} /\ R.calls # <<>>) => ~TextOnly
    /\ (Done("post") /\ TextOnly)
          => /\ R.status = 201
             /\ R.in.id \in DOMAIN db
    /\ (Done("put") /\ Addressed /\ TextOnly)
          => IF R.in.isActive = Undefined
             THEN R.status = 400 /\ db = R.before
             ELSE /\ R.status = 200
                  /\ db[R.in.id] = [R.before[R.in.id] EXCEPT !.isActive = FALSE]

\* with storage not initialized an update of only isActive succeeded
C21_Witness ==
    /\ ~gcsInit
    /\ Done("put") /\ Addressed /\ TextOnly
    /\ R.in.isActive # Undefined
    /\ R.status = 200
    /\ R.before[R.in.id].isActive /\ ~db[R.in.id].isActive

\* the keys of an element of the public list
PublicKeys ==
    {"_id", "name", "description", "productType", "baseImageURL",
     "additionalImageURLs", "dimensions", "gstRate"}

\* the ids listed in a list of documents
ListedIds(list) == {list[i]["_id"] : i \in 1..Len(list)}

\* C22: in every state the public list holds exactly the stored products with
\* isActive = true, each once, each with the public keys only (no isActive, no
\* timestamps) carrying the stored values and dimensions reduced to
\* dimensionName and basePrice, while the admin list holds every stored product
C22_PublicListActiveOnly ==
    LET list == PublicList(db)
    IN  /\ ListedIds(list) = {id \in DOMAIN db : db[id].isActive}
        /\ Len(list) = Cardinality(ListedIds(list))
        /\ ListedIds(AdminList(db)) = DOMAIN db
        /\ \A i \in 1..Len(list) :
              LET item == list[i]
                  doc == db[item["_id"]]
              IN  /\ DOMAIN item = PublicKeys
                  /\ \A k \in PublicKeys \ {"_id", "dimensions"} : item[k] = doc[k]
                  /\ Len(item.dimensions) = Len(doc.dimensions)
                  /\ \A j \in 1..Len(doc.dimensions) :
                        /\ DOMAIN item.dimensions[j] = {"dimensionName", "basePrice"}
                        /\ item.dimensions[j].dimensionName = doc.dimensions[j].dimensionName
                        /\ item.dimensions[j].basePrice = doc.dimensions[j].basePrice

\* a product deactivated by an update is in the admin list and not in the
\* public list
C22_Witness ==
    /\ Done("put") /\ Addressed
    /\ R.before[R.in.id].isActive
    /\ R.in.id \in DOMAIN db /\ ~db[R.in.id].isActive
    /\ R.in.id \in ListedIds(AdminList(db))
    /\ R.in.id \notin ListedIds(PublicList(db))
    /\ R.in.id \in ListedIds(PublicList(R.before))

\* C23: a product created by a request without isActive is persisted with
\* isActive = true and is in the public list
C23_IsActiveDefaultsTrue ==
    (Done("post") /\ R.status = 201 /\ R.in.isActive = Undefined)
       => /\ db[R.in.id].isActive
          /\ R.in.id \in ListedIds(PublicList(db))

\* C24: a create or update request in which a non-image file was refused is
\* not aborted: with valid text fields, storage initialized and no upload
\* failing, it ends in success
C24_RefusedFileDoesNotAbort ==
    (/\ R.pc = "done"
     /\ R.op \in {"post", "put"}
     /\ R.in.fileValidationError
     /\ gcsInit
     /\ ~R.uploadFailed
     /\ (R.op = "put" => Addressed))
       => R.status \in {200, 201}

\* slot s holds an update whose data the schema accepts and whose final write
\* is about to settle on a stored document that slot o's finished update
\* changed after s fetched it
WritesAfter(s, o) ==
    /\ req[s].op = "put" /\ req[s].pc = "putWrite"
    /\ req[o].op = "put" /\ req[o].pc = "done" /\ req[o].status = 200
    /\ req[s].in.id = req[o].in.id
    /\ req[s].in.id \in DOMAIN db
    /\ <<db[req[s].in.id]>> # req[s].existing
    /\ SchemaCheck(req[s].data) = "ok"
    /\ \A p \in DOMAIN req[o].data :
          db[req[s].in.id][p] = CastDoc(req[o].data)[p]

\* the write of slot s is accepted; the stored document takes every field s
\* sets and keeps the fields only o set
LastWriteWins(s, o) ==
    LET id == req[s].in.id
        w == CastDoc(req[s].data)
        l == CastDoc(req[o].data)
    IN  /\ req'[s].status = 200
        /\ \A p \in DOMAIN db'[id] :
              db'[id][p] = IF p \in DOMAIN w THEN w[p]
                           ELSE IF p \in DOMAIN l THEN l[p]
                           ELSE db[id][p]

\* C25: two updates of one product that run concurrently are both accepted
\* with no version check; the write applied last decides every field both
\* set, and a field only one of them set keeps that request's value
C25_LastWriteWins ==
    [][\A s, o \in Slots :
          (WritesAfter(s, o) /\ req'[s].pc = "done") => LastWriteWins(s, o)]_vars

\* both updates fetched the same document before either wrote; they set name
\* to different values, only the first sets description, and the second
\* wrote last
C25_Witness ==
    /\ \A s \in Slots : req[s].op = "put" /\ req[s].pc = "done" /\ req[s].status = 200
    /\ req[1].in.id = req[2].in.id
    /\ req[1].existing = req[2].existing
    /\ "name" \in DOMAIN req[1].data /\ "name" \in DOMAIN req[2].data
    /\ req[1].data["name"] # req[2].data["name"]
    /\ req[1].existing[1].name \notin {req[1].data["name"], req[2].data["name"]}
    /\ "description" \in DOMAIN req[1].data
    /\ "description" \notin DOMAIN req[2].data
    /\ db[req[1].in.id].name = req[2].data["name"]
    /\ db[req[1].in.id].description = req[1].data["description"]

\* the final write of the update in slot s settles after the product it
\* fetched was deleted
WritesDeleted(s) ==
    /\ req[s].op = "put" /\ req[s].pc = "putWrite"
    /\ req[s].existing # <<>>
    /\ req[s].in.id \notin DOMAIN db
    /\ req'[s].pc = "done"

\* C28 as stated: an update whose product was deleted between its fetch and
\* its final write ends in not-found and the product stays absent
C28_AsStated ==
    [][\A s \in Slots :
          WritesDeleted(s) => /\ req'[s].status = 404
                              /\ req[s].in.id \notin DOMAIN db']_vars

\* C28, amended: an update whose product was deleted between its fetch and
\* its final write leaves the product absent; it ends in not-found when the
\* schema accepts its data, and in the validation (400) or cast (500) error
\* otherwise
C28_NeverResurrects ==
    [][\A s \in Slots :
          WritesDeleted(s)
             => /\ req[s].in.id \notin DOMAIN db'
                /\ req'[s].status =
                      CASE SchemaCheck(req[s].data) = "ok" -> 404
                        [] SchemaCheck(req[s].data) = "ValidationError" -> 400
                        [] OTHER -> 500]_vars

\* an update that had fetched its product ended in not-found, next to the
\* finished delete of that product in the other slot
C28_Witness ==
    /\ req[1].op = "put" /\ req[1].pc = "done" /\ req[1].status = 404
    /\ req[1].existing # <<>>
    /\ req[2].op = "delete" /\ req[2].pc = "done" /\ req[2].status = 200
    /\ req[2].in.id = req[1].in.id
    /\ req[1].in.id \notin DOMAIN db

\* the gateway-produced URLs the stored products hold
ReferencedUrls ==
    {url \in UNION {ImageUrls(db[id]) : id \in DOMAIN db} : IsBucketUrl(url)}

\* C26: whenever no request is in flight, also after an update that ended in
\* error, every gateway-produced URL a stored product holds denotes an object
\* in the store
C26_NoDanglingReference ==
    R.pc \in {"idle", "done"} => ReferencedUrls \subseteq store

\* C27: with storage initialized and no gateway call failing, whenever no
\* request is in flight every object in the store is referenced by a stored
\* product
C27_NoOrphanWithoutFailure ==
    R.pc \in {"idle", "done"} => store \subseteq ReferencedUrls

\* C29: any two uploads a request issues, for the files at two different
\* positions of its parts, obtain different keys and so different URLs
C29_KeysDistinct ==
    \A i, j \in 1..Len(R.calls) :
       (i # j /\ R.calls[i].kind = "put" /\ R.calls[j].kind = "put")
          => R.calls[i].url # R.calls[j].url

\* C30: every stored gstRate lies in [0,1]; a create stores the submitted
\* gstRate unchanged when it is a number in [0,1], zero included, and stores
\* the default only when no gstRate is submitted
C30_GstRateStoredAsSubmitted ==
    /\ \A id \in DOMAIN db : db[id].gstRate >= 0 /\ db[id].gstRate <= GstMax
    /\ (Done("post") /\ R.status = 201) =>
          LET g == ParseFloat(R.in.gstRate)
          IN  IF R.in.gstRate = Undefined
              THEN db[R.in.id].gstRate = GstDefault
              ELSE (~g.nan /\ g.val >= 0 /\ g.val <= GstMax)
                      => db[R.in.id].gstRate = g.val

====
